---- MODULE Spec2Model ----
(***************************************************************************)
(* A model of plumbum's conduit core (src/src/lib.rs): the three-variant   *)
(* ConduitM value, and_then / map, fuse, to_producer and the connect loop. *)
(*                                                                         *)
(* Closures are defunctionalised: a closure is a record [op |-> ...] with  *)
(* its captured values, and Apply is the call.  Every operator that can    *)
(* call a closure threads a log of the calls and of the continuations the  *)
(* drivers run, in the order Rust evaluates them, so that "this code was   *)
(* (not) run" is a statement about the log.                                *)
(***************************************************************************)
EXTENDS Integers, Sequences, FiniteSets, TLC

VARIABLES pc, src, sink, mid, result, log,
          vs0, srcKind, sinkBase, sinkJs, fused, gen, eq

vars == <<pc, src, sink, mid, result, log,
          vs0, srcKind, sinkBase, sinkJs, fused, gen, eq>>

RECURSIVE Apply(_, _, _), RunFrom(_, _, _), Fuse(_, _, _), ToProducer(_, _)

(* ------------------------------ bounds -------------------------------- *)

\* longest list a finite test source yields
MaxLen == 2

\* most and_then / map calls made on the sink before it is connected
MaxCompose == 2

\* the stream elements: two distinct values show a drop, a duplicate or a swap
Vals == {0, 1}

(* ------------------------------ values -------------------------------- *)
\* Every Rust value is a tagged record, so values of different types compare
\* unequal instead of being incomparable.

Unit == [t |-> "unit"]

IntV(n) == [t |-> "int", n |-> n]

None == [t |-> "none"]

Some(v) == [t |-> "some", v |-> v]

List(xs) == [t |-> "list", xs |-> xs]

(* ----------------------------- ConduitM ------------------------------- *)

Pure(a) == [tag |-> "Pure", a |-> a]

Await(k) == [tag |-> "Await", k |-> k]

Yield(o, k) == [tag |-> "Yield", o |-> o, k |-> k]

\* impl From<A> for ConduitM
From(a) == Pure(a)

(* ------------------------------ Kleisli ------------------------------- *)
\* The queue of continuations: a sequence of closures.

KleisliNew == <<>>

KleisliAppend(k, f) == Append(k, f)

\* An operator's outcome: the conduit it returns and the log it leaves.
Out(c, l) == [c |-> c, log |-> l]

\* The one element of a singleton set.  An outcome that is used more than once
\* is bound by a set, { e(r) : r \in {f(x)} }, so that it is computed once.
Only(S) == CHOOSE y \in S : TRUE

\* log entries
Called(f, x) == [ev |-> "call", who |-> f.op, arg |-> x]

Ran(who, x) == [ev |-> "run", who |-> who, arg |-> x]

\* Thread the conduit c through the queued closures q: a finished c feeds its
\* result to the next closure, a suspended c keeps the rest of the queue.
RunFrom(q, c, l) ==
    IF Len(q) = 0 THEN Out(c, l)
    ELSE CASE c.tag = "Pure"  -> Only({RunFrom(Tail(q), r.c, r.log) :
                                         r \in {Apply(Head(q), c.a, l)}})
           [] c.tag = "Await" -> Out(Await(c.k \o q), l)
           [] c.tag = "Yield" -> Out(Yield(c.o, c.k \o q), l)

\* Kleisli::run(self, a)
KleisliRun(k, x, l) == RunFrom(k, Pure(x), l)

(* -------------------------- consume / produce ------------------------- *)

Consume == Await(KleisliNew)

Produce(o) == Yield(o, KleisliNew)

(* ------------------------- and_then and map --------------------------- *)

\* and_then with the Pure arm returning the pipeline as it is, js never called
AndThenSkipsPure(p, js, l) ==
    CASE p.tag = "Pure"  -> Out(Pure(p.a), l)
      [] p.tag = "Await" -> Out(Await(KleisliAppend(p.k, js)), l)
      [] p.tag = "Yield" -> Out(Yield(p.o, KleisliAppend(p.k, js)), l)

\* and_then treating a bare consume() as finished with None: js is called at once
AndThenCallsEarly(p, js, l) ==
    CASE p.tag = "Pure"  -> Apply(js, p.a, l)
      [] p.tag = "Await" -> IF p.k = KleisliNew THEN Apply(js, None, l)
                            ELSE Out(Await(KleisliAppend(p.k, js)), l)
      [] p.tag = "Yield" -> Out(Yield(p.o, KleisliAppend(p.k, js)), l)

AndThen(p, js, l) ==
    CASE p.tag = "Pure"  -> Apply(js, p.a, l)
      [] p.tag = "Await" -> Out(Await(KleisliAppend(p.k, js)), l)
      [] p.tag = "Yield" -> Out(Yield(p.o, KleisliAppend(p.k, js)), l)

\* the pure functions the test pipelines map over a result
PureFn(fn, x) ==
    CASE fn = "inc"    -> IntV(1 + (IF x.t = "some" THEN x.v.n ELSE 0))
      [] fn = "orNeg1" -> IntV(IF x.t = "some" THEN x.v.n ELSE -1)
      [] fn = "succ"   -> IntV(x.n + 1)

FnDom(fn) == IF fn = "succ" THEN "int" ELSE "opt"

\* the closure map builds: move |a| f(a).into()
MapK(fn) == [op |-> "MapK", fn |-> fn]

MapKCall(f, a, l) == Out(From(PureFn(f.fn, a)), l)

Map(p, fn, l) == AndThen(p, MapK(fn), l)

(* --------------------------- to_producer ------------------------------ *)

ToProducerK(k) == [op |-> "ToProducerK", kp |-> k]

\* to_producer with the Yield arm forgetting the rest of the source
ToProducerDropsRest(s, l) ==
    CASE s.tag = "Pure"  -> Out(Pure(s.a), l)
      [] s.tag = "Await" ->
           Only({ToProducer(r.c, r.log) :
                   r \in {KleisliRun(s.k, Some(Unit), Append(l, Ran("P", Some(Unit))))}})
      [] s.tag = "Yield" -> Out(Yield(s.o, KleisliNew), l)

\* to_producer with the Yield arm keeping the source's continuation as it is
ToProducerKeepsRest(s, l) ==
    CASE s.tag = "Pure"  -> Out(Pure(s.a), l)
      [] s.tag = "Await" ->
           Only({ToProducer(r.c, r.log) :
                   r \in {KleisliRun(s.k, Some(Unit), Append(l, Ran("P", Some(Unit))))}})
      [] s.tag = "Yield" -> Out(Yield(s.o, s.k), l)

ToProducer(s, l) ==
    CASE s.tag = "Pure"  -> Out(Pure(s.a), l)
      [] s.tag = "Await" ->
           Only({ToProducer(r.c, r.log) :
                   r \in {KleisliRun(s.k, Some(Unit), Append(l, Ran("P", Some(Unit))))}})
      [] s.tag = "Yield" -> Out(Yield(s.o, KleisliAppend(KleisliNew, ToProducerK(s.k))), l)

\* move |_| k.run(()).to_producer()
ToProducerKCall(f, x, l) ==
    Only({ToProducer(r.c, r.log) :
            r \in {KleisliRun(f.kp, Unit, Append(l, Ran("P", Unit)))}})

(* ------------------------------- fuse --------------------------------- *)

FuseYieldK(u, k) == [op |-> "FuseYieldK", u |-> u, kd |-> k]

FuseAwaitK(kl, kr) == [op |-> "FuseAwaitK", kl |-> kl, kr |-> kr]

\* fuse with the Yield/Await hand-off telling downstream None instead of Some(b)
FuseFeedsNone(u, d, l) ==
    CASE d.tag = "Pure"  -> Out(Pure(d.a), l)
      [] d.tag = "Yield" -> Out(Yield(d.o, KleisliAppend(KleisliNew, FuseYieldK(u, d.k))), l)
      [] d.tag = "Await" ->
         CASE u.tag = "Pure"  ->
                Only({Fuse(From(Unit), rd.c, rd.log) :
                        rd \in {KleisliRun(d.k, None, Append(l, Ran("D", None)))}})
           [] u.tag = "Yield" ->
                Only({Only({Fuse(ru.c, rd.c, rd.log) :
                              rd \in {KleisliRun(d.k, None, Append(ru.log, Ran("D", None)))}}) :
                        ru \in {KleisliRun(u.k, Unit, Append(l, Ran("U", Unit)))}})
           [] u.tag = "Await" ->
                Out(Await(KleisliAppend(KleisliNew, FuseAwaitK(u.k, d.k))), l)

\* fuse resuming a Yielding upstream before it looks at downstream
FuseAdvancesUpstream(u, d, l) ==
    CASE d.tag = "Pure"  ->
           IF u.tag = "Yield"
           THEN Only({Out(Pure(d.a), ru.log) :
                        ru \in {KleisliRun(u.k, Unit, Append(l, Ran("U", Unit)))}})
           ELSE Out(Pure(d.a), l)
      [] d.tag = "Yield" ->
           IF u.tag = "Yield"
           THEN Only({Out(Yield(d.o, KleisliAppend(KleisliNew, FuseYieldK(ru.c, d.k))),
                          ru.log) :
                        ru \in {KleisliRun(u.k, Unit, Append(l, Ran("U", Unit)))}})
           ELSE Out(Yield(d.o, KleisliAppend(KleisliNew, FuseYieldK(u, d.k))), l)
      [] d.tag = "Await" ->
         CASE u.tag = "Pure"  ->
                Only({Fuse(From(Unit), rd.c, rd.log) :
                        rd \in {KleisliRun(d.k, None, Append(l, Ran("D", None)))}})
           [] u.tag = "Yield" ->
                Only({Only({Fuse(ru.c, rd.c, rd.log) :
                              rd \in {KleisliRun(d.k, Some(u.o),
                                                 Append(ru.log, Ran("D", Some(u.o))))}}) :
                        ru \in {KleisliRun(u.k, Unit, Append(l, Ran("U", Unit)))}})
           [] u.tag = "Await" ->
                Out(Await(KleisliAppend(KleisliNew, FuseAwaitK(u.k, d.k))), l)

\* fuse passing a value of a Yielding upstream through instead of handing it
\* to the awaiting downstream
FusePassesUpstreamYield(u, d, l) ==
    CASE d.tag = "Pure"  -> Out(Pure(d.a), l)
      [] d.tag = "Yield" -> Out(Yield(d.o, KleisliAppend(KleisliNew, FuseYieldK(u, d.k))), l)
      [] d.tag = "Await" ->
         CASE u.tag = "Pure"  ->
                Only({Fuse(From(Unit), rd.c, rd.log) :
                        rd \in {KleisliRun(d.k, None, Append(l, Ran("D", None)))}})
           [] u.tag = "Yield" ->
                Out(Yield(u.o, KleisliAppend(KleisliNew, FuseAwaitK(u.k, d.k))), l)
           [] u.tag = "Await" ->
                Out(Await(KleisliAppend(KleisliNew, FuseAwaitK(u.k, d.k))), l)

\* fuse taking an awaiting upstream for an exhausted one: downstream is told None
FuseAwaitFeedsNone(u, d, l) ==
    CASE d.tag = "Pure"  -> Out(Pure(d.a), l)
      [] d.tag = "Yield" -> Out(Yield(d.o, KleisliAppend(KleisliNew, FuseYieldK(u, d.k))), l)
      [] d.tag = "Await" ->
         CASE u.tag = "Pure"  ->
                Only({Fuse(From(Unit), rd.c, rd.log) :
                        rd \in {KleisliRun(d.k, None, Append(l, Ran("D", None)))}})
           [] u.tag = "Yield" ->
                Only({Only({Fuse(ru.c, rd.c, rd.log) :
                              rd \in {KleisliRun(d.k, Some(u.o),
                                                 Append(ru.log, Ran("D", Some(u.o))))}}) :
                        ru \in {KleisliRun(u.k, Unit, Append(l, Ran("U", Unit)))}})
           [] u.tag = "Await" ->
                Only({Fuse(u, rd.c, rd.log) :
                        rd \in {KleisliRun(d.k, None, Append(l, Ran("D", None)))}})

\* self.fuse(other): u is self (upstream), d is other (downstream)
Fuse(u, d, l) ==
    CASE d.tag = "Pure"  -> Out(Pure(d.a), l)
      [] d.tag = "Yield" -> Out(Yield(d.o, KleisliAppend(KleisliNew, FuseYieldK(u, d.k))), l)
      [] d.tag = "Await" ->
         CASE u.tag = "Pure"  ->
                Only({Fuse(From(Unit), rd.c, rd.log) :
                        rd \in {KleisliRun(d.k, None, Append(l, Ran("D", None)))}})
           [] u.tag = "Yield" ->
                Only({Only({Fuse(ru.c, rd.c, rd.log) :
                              rd \in {KleisliRun(d.k, Some(u.o),
                                                 Append(ru.log, Ran("D", Some(u.o))))}}) :
                        ru \in {KleisliRun(u.k, Unit, Append(l, Ran("U", Unit)))}})
           [] u.tag = "Await" ->
                Out(Await(KleisliAppend(KleisliNew, FuseAwaitK(u.k, d.k))), l)

\* move |_| self.fuse(k.run(()))
FuseYieldKCall(f, x, l) ==
    Only({Fuse(f.u, rd.c, rd.log) :
            rd \in {KleisliRun(f.kd, Unit, Append(l, Ran("D", Unit)))}})

\* move |a| k_left.run(a).fuse(ConduitM::Await(k_right))
FuseAwaitKCall(f, a, l) ==
    Only({Fuse(ru.c, Await(f.kr), ru.log) :
            ru \in {KleisliRun(f.kl, a, Append(l, Ran("U", a)))}})

(* ------------------------- the test pipelines ------------------------- *)

\* a finite source: yields the elements of vs in order, then finishes
SourceK(vs) == [op |-> "SourceK", vs |-> vs]

SourceList(vs) ==
    IF Len(vs) = 0 THEN From(Unit)
    ELSE AndThen(Produce(IntV(Head(vs))), SourceK(Tail(vs)), <<>>).c

SourceKCall(f, x, l) == Out(SourceList(f.vs), l)

\* a source that first awaits (its input type is ()), then yields vs
AwaitSource(vs) == AndThen(Consume, SourceK(vs), <<>>).c

\* a source that awaits twice, and then before every element and before it
\* finishes awaits once more
AwaitsK(vs) == [op |-> "AwaitsK", vs |-> vs]

AwaitsYieldK(vs) == [op |-> "AwaitsYieldK", vs |-> vs]

AwaitsKCall(f, x, l) == AndThen(Consume, AwaitsYieldK(f.vs), l)

AwaitsYieldKCall(f, x, l) ==
    IF Len(f.vs) = 0 THEN Out(From(Unit), l)
    ELSE AndThen(Produce(IntV(Head(f.vs))), AwaitsK(Tail(f.vs)), l)

AwaitsSource(vs) == AndThen(Consume, AwaitsK(vs), <<>>).c

\* the infinite source yielding n, n+1, n+2, ...
CountK(n) == [op |-> "CountK", n |-> n]

Count(n) == AndThen(Produce(IntV(n)), CountK(n + 1), <<>>).c

CountKCall(f, x, l) == Out(Count(f.n), l)

\* the sink that awaits and collects every input until it receives None
CollectK(acc) == [op |-> "CollectK", acc |-> acc]

CollectKCall(f, x, l) ==
    IF x.t = "none" THEN Out(From(List(f.acc)), l)
    ELSE AndThen(Consume, CollectK(Append(f.acc, x.v.n)), l)

\* a sink that awaits a further input whatever it received: |_| consume()
ThenConsumeK == [op |-> "ThenConsumeK"]

ThenConsumeKCall(f, x, l) == Out(Consume, l)

\* the pass-through conduit: awaits an input and yields it, until None
IdentityK == [op |-> "IdentityK"]

IdentityLoopK == [op |-> "IdentityLoopK"]

Identity == AndThen(Consume, IdentityK, <<>>).c

IdentityKCall(f, x, l) ==
    IF x.t = "none" THEN Out(From(Unit), l)
    ELSE AndThen(Produce(x.v), IdentityLoopK, l)

IdentityLoopKCall(f, x, l) == Out(Identity, l)

\* a conduit that yields a first value of its own and then passes through
Header == AndThen(Produce(IntV(0)), IdentityLoopK, <<>>).c

\* the conduit of fuse's example: consume().and_then(|x| produce(g(x)))
ProduceFnK(fn) == [op |-> "ProduceFnK", fn |-> fn]

ProduceFnKCall(f, x, l) == Out(Produce(PureFn(f.fn, x)), l)

ProduceFn(fn) == AndThen(Consume, ProduceFnK(fn), <<>>).c

\* calling a boxed closure
Apply(f, x, l) ==
    LET l1 == Append(l, Called(f, x)) IN
    CASE f.op = "MapK"          -> MapKCall(f, x, l1)
      [] f.op = "ToProducerK"   -> ToProducerKCall(f, x, l1)
      [] f.op = "FuseYieldK"    -> FuseYieldKCall(f, x, l1)
      [] f.op = "FuseAwaitK"    -> FuseAwaitKCall(f, x, l1)
      [] f.op = "SourceK"       -> SourceKCall(f, x, l1)
      [] f.op = "AwaitsK"       -> AwaitsKCall(f, x, l1)
      [] f.op = "AwaitsYieldK"  -> AwaitsYieldKCall(f, x, l1)
      [] f.op = "CountK"        -> CountKCall(f, x, l1)
      [] f.op = "CollectK"      -> CollectKCall(f, x, l1)
      [] f.op = "ThenConsumeK"  -> ThenConsumeKCall(f, x, l1)
      [] f.op = "IdentityK"     -> IdentityKCall(f, x, l1)
      [] f.op = "IdentityLoopK" -> IdentityLoopKCall(f, x, l1)
      [] f.op = "ProduceFnK"    -> ProduceFnKCall(f, x, l1)

(* ----------------------------- PartialEq ------------------------------ *)

\* == taking two pipelines for equal when they are the same value
ConduitEqStructural(p, q) == p = q

\* self == other
ConduitEq(p, q) ==
    CASE p.tag = "Pure" /\ q.tag = "Pure" -> p.a = q.a
      [] OTHER                            -> FALSE

(* ------------------------------ connect ------------------------------- *)

\* connect with an awaiting source taken for an exhausted one: the sink is told None
ConnectIterAwaitNone(self, snk, l) ==
    CASE self.tag = "Pure"  ->
           Only({[src |-> Pure(self.a), sink |-> rs.c, log |-> rs.log] :
                   rs \in {KleisliRun(snk.k, None, Append(l, Ran("sink", None)))}})
      [] self.tag = "Await" ->
           Only({Only({[src |-> rp.c, sink |-> rs.c, log |-> rs.log] :
                         rs \in {KleisliRun(snk.k, None, Append(rp.log, Ran("sink", None)))}}) :
                   rp \in {KleisliRun(self.k, Some(Unit), Append(l, Ran("src", Some(Unit))))}})
      [] self.tag = "Yield" ->
           Only({Only({[src |-> rp.c, sink |-> rs.c, log |-> rs.log] :
                         rs \in {KleisliRun(snk.k, Some(self.o),
                                            Append(rp.log, Ran("sink", Some(self.o))))}}) :
                   rp \in {KleisliRun(self.k, Unit, Append(l, Ran("src", Unit)))}})

\* connect with the yielded value lost: the sink is told None
ConnectIterYieldNone(self, snk, l) ==
    CASE self.tag = "Pure"  ->
           Only({[src |-> Pure(self.a), sink |-> rs.c, log |-> rs.log] :
                   rs \in {KleisliRun(snk.k, None, Append(l, Ran("sink", None)))}})
      [] self.tag = "Await" ->
           Only({[src |-> rp.c, sink |-> Await(snk.k), log |-> rp.log] :
                   rp \in {KleisliRun(self.k, Some(Unit), Append(l, Ran("src", Some(Unit))))}})
      [] self.tag = "Yield" ->
           Only({Only({[src |-> rp.c, sink |-> rs.c, log |-> rs.log] :
                         rs \in {KleisliRun(snk.k, None, Append(rp.log, Ran("sink", None)))}}) :
                   rp \in {KleisliRun(self.k, Unit, Append(l, Ran("src", Unit)))}})

\* connect with a finished source leaving the sink as it is, still awaiting
ConnectIterPureIdle(self, snk, l) ==
    CASE self.tag = "Pure"  -> [src |-> Pure(self.a), sink |-> Await(snk.k), log |-> l]
      [] self.tag = "Await" ->
           Only({[src |-> rp.c, sink |-> Await(snk.k), log |-> rp.log] :
                   rp \in {KleisliRun(self.k, Some(Unit), Append(l, Ran("src", Some(Unit))))}})
      [] self.tag = "Yield" ->
           Only({Only({[src |-> rp.c, sink |-> rs.c, log |-> rs.log] :
                         rs \in {KleisliRun(snk.k, Some(self.o),
                                            Append(rp.log, Ran("sink", Some(self.o))))}}) :
                   rp \in {KleisliRun(self.k, Unit, Append(l, Ran("src", Unit)))}})

\* connect asking a finished source again: the source is left awaiting
ConnectIterPureRequeries(self, snk, l) ==
    CASE self.tag = "Pure"  ->
           Only({[src |-> Await(KleisliNew), sink |-> rs.c, log |-> rs.log] :
                   rs \in {KleisliRun(snk.k, None, Append(l, Ran("sink", None)))}})
      [] self.tag = "Await" ->
           Only({[src |-> rp.c, sink |-> Await(snk.k), log |-> rp.log] :
                   rp \in {KleisliRun(self.k, Some(Unit), Append(l, Ran("src", Some(Unit))))}})
      [] self.tag = "Yield" ->
           Only({Only({[src |-> rp.c, sink |-> rs.c, log |-> rs.log] :
                         rs \in {KleisliRun(snk.k, Some(self.o),
                                            Append(rp.log, Ran("sink", Some(self.o))))}}) :
                   rp \in {KleisliRun(self.k, Unit, Append(l, Ran("src", Unit)))}})

\* One iteration of connect's loop with the sink awaiting: the next source,
\* the next sink and the log.  The tuple's left component is evaluated first.
ConnectIter(self, snk, l) ==
    CASE self.tag = "Pure"  ->
           Only({[src |-> Pure(self.a), sink |-> rs.c, log |-> rs.log] :
                   rs \in {KleisliRun(snk.k, None, Append(l, Ran("sink", None)))}})
      [] self.tag = "Await" ->
           Only({[src |-> rp.c, sink |-> Await(snk.k), log |-> rp.log] :
                   rp \in {KleisliRun(self.k, Some(Unit), Append(l, Ran("src", Some(Unit))))}})
      [] self.tag = "Yield" ->
           Only({Only({[src |-> rp.c, sink |-> rs.c, log |-> rs.log] :
                         rs \in {KleisliRun(snk.k, Some(self.o),
                                            Append(rp.log, Ran("sink", Some(self.o))))}}) :
                   rp \in {KleisliRun(self.k, Unit, Append(l, Ran("src", Unit)))}})


\* connect as a function: the loop run to its return
RECURSIVE ConnectLoop(_, _, _)
ConnectLoop(self, snk, l) ==
    IF snk.tag = "Pure" THEN [b |-> snk.a, log |-> l]
    ELSE Only({ConnectLoop(it.src, it.sink, it.log) : it \in {ConnectIter(self, snk, l)}})

(* --------------------------- the state machine ------------------------ *)

NoMid == [tag |-> "NoMid"]

NoResult == [t |-> "noresult"]

Lists == UNION {[1..n -> Vals] : n \in 0..MaxLen}

SrcKinds == {"produce", "list", "await", "awaits", "count"}

MakeSource(kind, vs) ==
    CASE kind = "produce" -> Produce(IntV(vs[1]))
      [] kind = "list"  -> SourceList(vs)
      [] kind = "await" -> AwaitSource(vs)
      [] kind = "awaits" -> AwaitsSource(vs)
      [] kind = "count" -> Count(0)

Mids == {NoMid, Identity, Header, ProduceFn("inc")}

SinkBases == {Consume, From(None)}
             \cup {From(IntV(v)) : v \in Vals}
             \cup {From(Some(IntV(v))) : v \in Vals}

Fns == {"inc", "orNeg1", "succ"}

\* no comparison made yet, and a comparison made: p == q gave b
NoEq == [t |-> "noeq"]

Compared(p, q, b) == [t |-> "eq", p |-> p, q |-> q, b |-> b]

\* the result type of the sink built so far
SinkTy == IF Len(sinkJs) > 0
          THEN (CASE sinkJs[Len(sinkJs)].op = "CollectK"     -> "list"
                  [] sinkJs[Len(sinkJs)].op = "ThenConsumeK" -> "opt"
                  [] OTHER                                   -> "int")
          ELSE IF sinkBase.tag = "Pure" /\ sinkBase.a.t = "int" THEN "int" ELSE "opt"

\* the sink collects until None: it never finishes on an infinite source
Greedy == \E i \in 1..Len(sinkJs) : sinkJs[i].op = "CollectK"

Init ==
    /\ pc = "build"
    /\ srcKind \in SrcKinds
    /\ vs0 \in CASE srcKind = "count"   -> {<<>>}
                 [] srcKind = "produce" -> {<<v>> : v \in Vals}
                 \* two iterations of connect per element: one element fewer
                 [] srcKind = "awaits"  -> {vs \in Lists : Len(vs) < MaxLen}
                 [] OTHER               -> Lists
    /\ src = MakeSource(srcKind, vs0)
    /\ mid \in Mids
    /\ sinkBase \in SinkBases
    /\ sink = sinkBase
    /\ sinkJs = <<>>
    /\ result = NoResult
    /\ log = <<>>
    /\ fused = "no"
    /\ gen = FALSE
    /\ eq = NoEq

\* sink = sink.map(fn)
SinkMap(fn) ==
    /\ pc = "build" /\ fused = "no"
    /\ Len(sinkJs) < MaxCompose
    /\ FnDom(fn) = SinkTy
    /\ LET r == Map(sink, fn, log)
       IN  sink' = r.c /\ log' = r.log
    /\ sinkJs' = Append(sinkJs, MapK(fn))
    /\ UNCHANGED <<pc, src, mid, result, vs0, srcKind, sinkBase, fused, gen, eq>>

\* the closures the sink is composed with: both take an Option
SinkKs == {CollectK(<<>>), ThenConsumeK}

\* sink = sink.and_then(js)
SinkAndThen(js) ==
    /\ pc = "build" /\ fused = "no"
    /\ Len(sinkJs) < MaxCompose
    /\ SinkTy = "opt"
    /\ LET r == AndThen(sink, js, log)
       IN  sink' = r.c /\ log' = r.log
    /\ sinkJs' = Append(sinkJs, js)
    /\ UNCHANGED <<pc, src, mid, result, vs0, srcKind, sinkBase, fused, gen, eq>>

\* src = src.to_producer()
ToProducerCall ==
    /\ pc = "build" /\ fused = "no" /\ ~gen
    /\ LET r == ToProducer(src, log)
       IN  src' = r.c /\ log' = r.log
    /\ gen' = TRUE
    /\ UNCHANGED <<pc, sink, mid, result, vs0, srcKind, sinkBase, sinkJs, fused, eq>>

\* src = src.fuse(mid)
FuseMid ==
    /\ pc = "build" /\ fused = "no" /\ mid # NoMid
    /\ LET r == Fuse(src, mid, log)
       IN  src' = r.c /\ log' = r.log
    /\ fused' = "mid"
    /\ UNCHANGED <<pc, sink, mid, result, vs0, srcKind, sinkBase, sinkJs, gen, eq>>

\* sink = mid.fuse(sink)
FuseMidSink ==
    /\ pc = "build" /\ fused = "no" /\ mid # NoMid
    /\ LET r == Fuse(mid, sink, log)
       IN  sink' = r.c /\ log' = r.log
    /\ fused' = "midsink"
    /\ UNCHANGED <<pc, src, mid, result, vs0, srcKind, sinkBase, sinkJs, gen, eq>>

\* sink = src.fuse(sink), to be driven by the finished source ().into()
FuseSrcSink ==
    /\ pc = "build" /\ fused = "no"
    /\ ~(srcKind = "count" /\ Greedy)
    /\ LET r == Fuse(src, sink, log)
       IN  sink' = r.c /\ log' = r.log
    /\ src' = From(Unit)
    /\ fused' = "sink"
    /\ UNCHANGED <<pc, mid, result, vs0, srcKind, sinkBase, sinkJs, gen, eq>>

\* src.connect(sink) is called
ConnectCall ==
    /\ pc = "build"
    /\ ~(srcKind = "count" /\ Greedy)
    /\ pc' = "loop"
    /\ UNCHANGED <<src, sink, mid, result, log, vs0, srcKind, sinkBase, sinkJs, fused, gen, eq>>

\* the loop's arms that end it: the sink is Pure (return), or Yield (unreachable!())
ConnectReturn ==
    /\ pc = "loop" /\ sink.tag # "Await"
    /\ IF sink.tag = "Pure"
       THEN pc' = "done" /\ result' = sink.a
       ELSE pc' = "panic" /\ result' = result
    /\ UNCHANGED <<src, sink, mid, log, vs0, srcKind, sinkBase, sinkJs, fused, gen, eq>>

\* the pipelines of the sink's type that the sink is compared with: itself
\* and finished ones
EqOperands ==
    {sink} \cup
    (CASE SinkTy = "int"  -> {From(IntV(v)) : v \in Vals}
       [] SinkTy = "opt"  -> {From(None)} \cup {From(Some(IntV(v))) : v \in Vals}
       [] SinkTy = "list" -> {From(List(<<>>))})

\* eq = (sink == q), for the sink as it was built
Compare(q) ==
    /\ pc = "build" /\ fused = "no" /\ ~gen
    /\ eq' = Compared(sink, q, ConduitEq(sink, q))
    /\ pc' = "compared"
    /\ UNCHANGED <<src, sink, mid, result, log, vs0, srcKind, sinkBase, sinkJs, fused, gen>>

ConnectStep ==
    /\ \E it \in {ConnectIter(src, sink, log)} :
           src' = it.src /\ sink' = it.sink /\ log' = it.log
    /\ UNCHANGED <<pc, mid, result, vs0, srcKind, sinkBase, sinkJs, fused, gen, eq>>

ConnectSrcPure == pc = "loop" /\ sink.tag = "Await" /\ src.tag = "Pure" /\ ConnectStep

ConnectSrcAwait == pc = "loop" /\ sink.tag = "Await" /\ src.tag = "Await" /\ ConnectStep

ConnectSrcYield == pc = "loop" /\ sink.tag = "Await" /\ src.tag = "Yield" /\ ConnectStep

Next ==
    \/ \E fn \in Fns : SinkMap(fn)
    \/ \E js \in SinkKs : SinkAndThen(js)
    \/ ToProducerCall
    \/ FuseMid
    \/ FuseMidSink
    \/ FuseSrcSink
    \/ ConnectCall
    \/ ConnectReturn
    \/ ConnectSrcPure
    \/ ConnectSrcAwait
    \/ ConnectSrcYield
    \/ \E q \in EqOperands : Compare(q)

Spec == Init /\ [][Next]_vars

\* Once connect is called its loop runs: an enabled iteration is taken.  The
\* calls that build the pipelines are the caller's and carry no fairness.
ConnectLoopStep == ConnectReturn \/ ConnectSrcPure \/ ConnectSrcAwait \/ ConnectSrcYield

FairSpec == Spec /\ WF_vars(ConnectLoopStep)


(* ------------------------- reading the log ---------------------------- *)

\* the inputs stage who was resumed with, in order
RunArgsOf(l, who) ==
    LET es == SelectSeq(l, LAMBDA e : e.ev = "run" /\ e.who = who)
    IN  [i \in 1..Len(es) |-> es[i].arg]

\* the arguments closure op was called with, in order
CallArgsOf(l, op) ==
    LET es == SelectSeq(l, LAMBDA e : e.ev = "call" /\ e.who = op)
    IN  [i \in 1..Len(es) |-> es[i].arg]

\* vs delivered as Some(v1), ..., Some(vn) and then None
Delivered(vs) ==
    [i \in 1..(Len(vs) + 1) |-> IF i <= Len(vs) THEN Some(IntV(vs[i])) ELSE None]

FiniteSrc == srcKind # "count"

CollectSink == sinkBase = Consume /\ sinkJs = <<CollectK(<<>>)>>

\* the sink is consume().map(fn)
MapSink(fn) == sinkBase = Consume /\ sinkJs = <<MapK(fn)>>

(* ------------------------------ claims -------------------------------- *)

\* C1: connect of a finite source yielding v1..vn with the collecting sink
\* returns exactly [v1..vn], and the sink was handed Some(v1), ..., Some(vn),
\* None in that order: no drop, no duplicate, no reordering.
C1_OrderPreserved ==
    (pc = "done" /\ fused = "no" /\ FiniteSrc /\ CollectSink)
        => /\ result = List(vs0)
           /\ RunArgsOf(log, "sink") = Delivered(vs0)

C1_Witness ==
    /\ pc = "done" /\ fused = "no" /\ srcKind = "list" /\ CollectSink
    /\ vs0 = <<1, 0>>
    /\ result = List(<<1, 0>>)

\* C2: produce(v).connect(consume().map(f)) returns f(Some(v)), and an already
\* finished source connected to consume().map(f) returns f(None).
C2_SingleHandOff ==
    \A fn \in {"inc", "orNeg1"} :
        (pc = "done" /\ fused = "no" /\ ~gen /\ MapSink(fn))
            => /\ srcKind = "produce" => result = PureFn(fn, Some(IntV(vs0[1])))
               /\ (srcKind = "list" /\ vs0 = <<>>) => result = PureFn(fn, None)

C2_Witness ==
    /\ pc = "done" /\ fused = "no" /\ ~gen /\ MapSink("inc")
    /\ srcKind = "produce" /\ vs0 = <<1>>
    /\ result = IntV(2)

\* the sink consumes exactly one element and returns it
OneElemSink == sinkBase = Consume /\ sinkJs \in {<<>>, <<MapK("orNeg1")>>}

FirstOfCount == IF sinkJs = <<>> THEN Some(IntV(0)) ELSE IntV(0)

\* C3: the infinite source 0,1,2,... with a sink that consumes one element
\* and returns it (connected directly, or fused with the sink and then
\* connected, or through the pass-through conduit): connect terminates and
\* returns 0.
C3_ShortCircuit ==
    (pc = "loop" /\ srcKind = "count" /\ OneElemSink
        /\ (fused \in {"no", "sink"} \/ mid = Identity))
        ~> (pc = "done" /\ result = FirstOfCount)

C3_Witness ==
    /\ pc = "done" /\ srcKind = "count" /\ fused = "sink"
    /\ sinkJs = <<MapK("orNeg1")>> /\ sinkBase = Consume
    /\ result = IntV(0)


\* the inputs among args: Some(_) and None, not the unit a Yield is resumed with
SomeArgs(args) == SelectSeq(args, LAMBDA x : x.t = "some")

\* how often the code after a produce call of the source was entered
AfterYieldCalls ==
    Len(SelectSeq(log, LAMBDA e : e.ev = "call" /\ e.who \in {"SourceK", "CountK"}
                                    /\ e.arg = Unit))

\* C4: upstream is never driven past what downstream demands: the code after
\* a yield runs only once downstream has asked for a further input, so the
\* yields resumed never outnumber the values delivered, and when downstream
\* finishes on receiving a yielded value the code after that yield never runs.
C4_UpstreamNotOverdriven ==
    LET down == RunArgsOf(log, IF fused = "no" THEN "sink" ELSE "D")
        m    == Len(SomeArgs(down))
        n    == AfterYieldCalls
    IN  fused \in {"no", "sink"}
            => /\ n <= m
               /\ (sink.tag = "Pure" /\ m > 0 /\ down[Len(down)].t = "some") => n < m

\* the source and the sink as the calls before connect built them
OrigSource == MakeSource(srcKind, vs0)

RECURSIVE AndThenAll(_, _)
AndThenAll(p, js) ==
    IF Len(js) = 0 THEN p ELSE AndThenAll(AndThen(p, Head(js), <<>>).c, Tail(js))

BuiltSink == AndThenAll(sinkBase, sinkJs)

\* C5: for a finite source S and a sink K, S.fuse(identity).connect(K) returns
\* what S.connect(K) returns, and K is resumed with the same inputs in both.
C5_FuseIdentityNoOp ==
    (pc = "done" /\ fused = "mid" /\ mid = Identity /\ FiniteSrc /\ ~gen)
        => LET ref == ConnectLoop(OrigSource, BuiltSink, <<>>)
           IN  /\ result = ref.b
               /\ RunArgsOf(log, "sink") = RunArgsOf(ref.log, "sink")

C5_Witness ==
    /\ pc = "done" /\ fused = "mid" /\ mid = Identity /\ ~gen
    /\ srcKind = "await" /\ vs0 = <<0, 1>> /\ CollectSink
    /\ result = List(<<0, 1>>)

\* the i-th value the source yields
Yielded(i) == IF srcKind = "count" THEN i - 1 ELSE vs0[i]

\* C6: in U.fuse(D) the inputs D receives are the values U yields, in U's
\* order and each at most once; the fused pipeline's outputs are D's outputs;
\* and produce(v).fuse(consume().and_then(|x| produce(g(x))))
\* .connect(consume().map(f)) returns f(Some(g(Some(v)))).
C6_FuseDelivers ==
    LET din  == SomeArgs(RunArgsOf(log, "D"))
        sin  == SomeArgs(RunArgsOf(log, "sink"))
    IN  /\ fused \in {"mid", "sink"}
            => /\ FiniteSrc => Len(din) <= Len(vs0)
               /\ \A i \in 1..Len(din) : din[i] = Some(IntV(Yielded(i)))
        /\ (fused = "mid" /\ mid = Identity)
            => /\ Len(sin) <= Len(din)
               /\ \A i \in 1..Len(sin) : sin[i] = din[i]
        /\ \A fn \in {"inc", "orNeg1"} :
             (pc = "done" /\ fused = "mid" /\ mid = ProduceFn("inc")
                 /\ srcKind = "produce" /\ MapSink(fn))
                => result = PureFn(fn, Some(PureFn("inc", Some(IntV(vs0[1])))))

C6_Witness ==
    /\ pc = "done" /\ fused = "mid" /\ mid = ProduceFn("inc")
    /\ srcKind = "produce" /\ vs0 = <<1>> /\ MapSink("inc")
    /\ result = IntV(3)

\* C7: finished(a).and_then(f) is f(a): f is called exactly once, with a, by
\* and_then itself, and what it returns is the pipeline, unchanged.
C7_LeftIdentity ==
    (pc = "build" /\ fused = "no" /\ sinkBase.tag = "Pure" /\ Len(sinkJs) = 1)
        => /\ sink = Apply(sinkJs[1], sinkBase.a, <<>>).c
           /\ CallArgsOf(log, sinkJs[1].op) = <<sinkBase.a>>
           /\ sinkJs[1].op = "MapK" => sink = From(PureFn(sinkJs[1].fn, sinkBase.a))

C7_Witness ==
    /\ pc = "build" /\ sinkBase = From(Some(IntV(1)))
    /\ sinkJs = <<CollectK(<<>>)>>
    /\ sink = Await(<<CollectK(<<1>>)>>)

IsInput(e, who) == e.ev = "run" /\ e.who = who /\ e.arg.t \in {"some", "none"}

\* C8: once connect or fuse has resumed a stage with None, every later input
\* of that stage is None; a finished upstream is not run again by fuse; and a
\* source that connect finds Finished is the same Finished source afterwards.
C8_ExhaustionIdempotent ==
    /\ [](\A i \in 1..Len(log) : \A j \in (i + 1)..Len(log) :
            \A who \in {"sink", "D"} :
              (IsInput(log[i], who) /\ log[i].arg = None)
                 => /\ IsInput(log[j], who) => log[j].arg = None
                    /\ who = "D" => ~(log[j].ev = "run" /\ log[j].who = "U"))
    /\ [][(pc = "loop" /\ src.tag = "Pure") => src' = src]_vars

C8_Witness ==
    /\ pc = "done"
    /\ RunArgsOf(log, "sink") = <<Some(IntV(1)), None, None>>

\* what connect returns without to_producer, for the same calls otherwise
RefRun ==
    CASE fused = "no"   -> ConnectLoop(OrigSource, BuiltSink, <<>>)
      [] fused = "mid"  -> ConnectLoop(Fuse(OrigSource, mid, <<>>).c, BuiltSink, <<>>)
      [] fused = "sink" -> ConnectLoop(From(Unit), Fuse(OrigSource, BuiltSink, <<>>).c, <<>>)

\* C9: s.to_producer() behaves as the finite source s: connected, or fused
\* and then connected, it gives the same result, and connected directly it
\* hands the sink the same values in the same order.
C9_ToProducerPreserves ==
    (pc = "done" /\ gen /\ FiniteSrc /\ fused \in {"no", "mid", "sink"})
        => /\ result = RefRun.b
           /\ fused = "no" => RunArgsOf(log, "sink") = RunArgsOf(RefRun.log, "sink")

C9_Witness ==
    /\ pc = "done" /\ gen /\ fused = "no" /\ srcKind = "await"
    /\ vs0 = <<1, 0>> /\ CollectSink
    /\ result = List(<<1, 0>>)

\* C10: connect of a finite source returns after finitely many iterations,
\* only when the sink is Finished, and it returns the value the sink holds.
C10_ConnectTerminates ==
    /\ (pc = "loop" /\ FiniteSrc) ~> (pc = "done")
    /\ [](pc = "done" => (sink.tag = "Pure" /\ result = sink.a))

C10_Witness ==
    /\ pc = "done" /\ FiniteSrc /\ fused = "no"
    /\ Len(RunArgsOf(log, "sink")) = 3
    /\ sink.tag = "Pure" /\ result = sink.a

\* the positions of the log where fuse resumed a continuation of a stage
FuseRuns(l) == {i \in 1..Len(l) : l[i].ev = "run" /\ l[i].who \in {"U", "D"}}

\* C11: when downstream D is Yielding(c, k), U.fuse(D) is Yielding(c, ..) for
\* every upstream U and the call runs nothing: the fused pipeline holds U
\* and k as they were, and a continuation of U or of D is resumed only after
\* the fused pipeline's own continuation has been called.
C11_DownstreamYieldFirst ==
    /\ [][(pc = "build" /\ fused = "no" /\ fused' = "mid" /\ mid.tag = "Yield")
            => /\ src' = Yield(mid.o, <<FuseYieldK(src, mid.k)>>)
               /\ log' = log]_vars
    /\ []((fused = "mid" /\ mid.tag = "Yield")
            => \A i \in FuseRuns(log) :
                 \E j \in 1..(i - 1) : log[j].ev = "call" /\ log[j].who = "FuseYieldK")

C11_Witness ==
    /\ fused = "mid" /\ mid.tag = "Yield" /\ pc = "loop"
    /\ srcKind \in {"list", "produce"} /\ Len(vs0) > 0
    /\ src.tag = "Yield" /\ src.o = mid.o
    /\ FuseRuns(log) = {}

\* the closures of the upstream stage of the fusion sink = U.fuse(K); those of
\* a source that to_producer has already resumed are left out
UpstreamOps ==
    CASE fused = "midsink" -> {"IdentityK", "IdentityLoopK", "ProduceFnK"}
      [] fused = "sink" /\ ~gen -> {"SourceK", "CountK", "AwaitsK", "AwaitsYieldK"}
      [] OTHER -> {}

\* C12: when downstream D is Finished(r), U.fuse(D) is Finished(r) for every
\* upstream U (Finished, Awaiting or Yielding): the call runs nothing, and no
\* continuation of U is run afterwards either.
C12_DownstreamFinishedEnds ==
    /\ [][(pc = "build" /\ fused = "no" /\ fused' \in {"sink", "midsink"}
             /\ sink.tag = "Pure")
            => /\ sink' = Pure(sink.a)
               /\ log' = log]_vars
    /\ []((fused \in {"sink", "midsink"} /\ BuiltSink.tag = "Pure")
            => /\ sink = BuiltSink
               /\ FuseRuns(log) = {}
               /\ \A i \in 1..Len(log) :
                    log[i].ev = "call" =>
                      log[i].who \notin {"FuseYieldK", "FuseAwaitK"} \cup UpstreamOps)

C12_Witness ==
    /\ pc = "done" /\ fused = "sink" /\ srcKind = "count" /\ ~gen
    /\ sinkBase = From(IntV(1)) /\ sinkJs = <<>>
    /\ result = IntV(1) /\ log = <<>>

\* C13: a sink is never Yielding: connect finds the sink Finished or Awaiting
\* in every iteration and never takes the unreachable!() arm, also when the
\* sink is source.fuse(K) or conduit.fuse(K) for a sink K.
C13_SinkNeverYields ==
    /\ pc # "panic"
    /\ sink.tag \in {"Pure", "Await"}
    /\ pc = "done" => sink.tag = "Pure"

C13_Witness ==
    /\ pc = "loop" /\ fused = "sink" /\ srcKind = "awaits" /\ vs0 # <<>>
    /\ sink.tag = "Await"
    /\ Len(RunArgsOf(log, "sink")) >= 2
    /\ RunArgsOf(log, "D") # <<>>

\* the sink before its last and_then or map, and the closure given to that call
SinkBefore == AndThenAll(sinkBase, SubSeq(sinkJs, 1, Len(sinkJs) - 1))

LastJs == sinkJs[Len(sinkJs)]

\* C14: and_then on a suspended pipeline runs nothing. For P Awaiting,
\* P.and_then(f) is Awaiting with f queued behind P's continuation; for P
\* Yielding(o, k) it is Yielding(o, ..); the call invokes neither f nor a
\* continuation of P. f is invoked only when P has been driven to Finished:
\* once, and with P's result.
C14_AndThenSuspends ==
    /\ [][(pc = "build" /\ sink.tag = "Await" /\ sinkJs' # sinkJs)
            => /\ sink' = Await(Append(sink.k, sinkJs'[Len(sinkJs')]))
               /\ log' = log]_vars
    /\ []((srcKind = "list" /\ vs0 # <<>> /\ ~gen /\ fused \in {"no", "midsink"})
            => /\ pc = "build" => src = Yield(IntV(vs0[1]), <<SourceK(Tail(vs0))>>)
               /\ fused = "no" =>
                    CallArgsOf(log, "SourceK") =
                      [i \in 1..Len(SomeArgs(RunArgsOf(log, "sink"))) |-> Unit])
    /\ []((fused = "no" /\ ~gen /\ sinkJs # <<>> /\ sinkBase = Consume)
            => LET calls == CallArgsOf(log, LastJs.op)
                   n == Cardinality({i \in 1..Len(sinkJs) : sinkJs[i].op = LastJs.op})
               IN  /\ pc = "build" => calls = <<>>
                   /\ pc = "done" =>
                        LET p == ConnectLoop(OrigSource, SinkBefore, <<>>).b
                        IN  IF LastJs.op = "CollectK" THEN calls[1] = p
                            ELSE Len(calls) = n /\ calls[n] = p)

C14_Witness ==
    /\ pc = "done" /\ fused = "no" /\ ~gen
    /\ srcKind = "list" /\ vs0 = <<1, 0>>
    /\ sinkBase = Consume /\ sinkJs = <<ThenConsumeK, MapK("inc")>>
    /\ CallArgsOf(log, "MapK") = <<Some(IntV(0))>>
    /\ CallArgsOf(log, "SourceK") = <<Unit, Unit>>
    /\ result = IntV(1)

\* a step that builds fd = u.fuse(d) from two awaiting stages
FuseOfAwaiting(u, d, fd) ==
    (u.tag = "Await" /\ d.tag = "Await")
        => /\ fd = Await(<<FuseAwaitK(u.k, d.k)>>)
           /\ log' = log

\* a step of connect that resumes the awaiting fused pipeline f, as stage who
\* of connect, and leaves f2: if the upstream of f awaits again after the
\* input, only that upstream has been run, and downstream is held as it was
ResumeOfAwaiting(f, f2, who) ==
    (f.tag = "Await" /\ Len(RunArgsOf(log', who)) = Len(RunArgsOf(log, who)) + 1)
        => LET a  == RunArgsOf(log', who)[Len(RunArgsOf(log', who))]
               u1 == KleisliRun(f.k[1].kl, a, <<>>).c
           IN  /\ RunArgsOf(log', "U")[Len(RunArgsOf(log, "U")) + 1] = a
               /\ u1.tag = "Await"
                    => /\ f2 = Await(<<FuseAwaitK(u1.k, f.k[1].kr)>>)
                       /\ RunArgsOf(log', "U") = Append(RunArgsOf(log, "U"), a)
                       /\ RunArgsOf(log', "D") = RunArgsOf(log, "D")

\* C15: when U and D are both Awaiting, U.fuse(D) is Awaiting and runs neither
\* continuation; resumed with an input, the fused pipeline resumes U with that
\* input, and while U awaits again D's continuation is not run and is kept.
C15_FuseOfAwaitingSuspends ==
    /\ [][(pc = "build" /\ fused = "no")
            => CASE fused' = "mid"     -> FuseOfAwaiting(src, mid, src')
                 [] fused' = "sink"    -> FuseOfAwaiting(src, sink, sink')
                 [] fused' = "midsink" -> FuseOfAwaiting(mid, sink, sink')
                 [] OTHER              -> TRUE]_vars
    /\ [][pc = "loop"
            => CASE fused = "mid" -> ResumeOfAwaiting(src, src', "src")
                 [] fused \in {"sink", "midsink"} -> ResumeOfAwaiting(sink, sink', "sink")
                 [] OTHER -> TRUE]_vars
    /\ [](\A i \in 1..Len(log) :
            (log[i].ev = "call" /\ log[i].who = "FuseAwaitK")
               => i < Len(log) /\ log[i + 1] = Ran("U", log[i].arg))

C15_Witness ==
    /\ pc = "loop" /\ fused = "mid" /\ srcKind = "awaits" /\ ~gen
    /\ mid = Identity
    /\ RunArgsOf(log, "U") = <<Some(Unit)>>
    /\ RunArgsOf(log, "D") = <<>>
    /\ src = Await(<<FuseAwaitK(<<AwaitsYieldK(vs0)>>, mid.k)>>)

\* C16: in an iteration of connect that finds sink and source both Awaiting,
\* the source is resumed with Some(()) and the sink is left as it is: its
\* continuation is not run and it is given no input.
C16_AwaitingSourceResumed ==
    [][(pc = "loop" /\ sink.tag = "Await" /\ src.tag = "Await")
         => LET r == KleisliRun(src.k, Some(Unit), Append(log, Ran("src", Some(Unit))))
            IN  /\ sink' = sink
                /\ src' = r.c
                /\ log' = r.log
                /\ RunArgsOf(log', "sink") = RunArgsOf(log, "sink")
                /\ pc' = "loop"]_vars

C16_Witness ==
    /\ pc = "loop" /\ fused = "no" /\ srcKind = "awaits" /\ ~gen
    /\ RunArgsOf(log, "src") = <<Some(Unit), Some(Unit)>>
    /\ RunArgsOf(log, "sink") = <<>>
    /\ sink = BuiltSink /\ sink.tag = "Await"
    /\ src.tag = "Yield"

\* the pipeline that fuse returned
Fused == IF fused = "mid" THEN src ELSE sink

\* C17: Finished is absorbing. A source that connect finds Finished is the
\* same Finished source after the iteration, and when it is a fused pipeline
\* fuse runs neither of its stages again; once the sink is Finished no
\* further step of source or sink is taken; and once fuse has found its
\* upstream Finished and told downstream None, the fused pipeline holds that
\* upstream as Finished with the same value and never awaits again.
C17_FinishedAbsorbing ==
    /\ [][(pc = "loop" /\ src.tag = "Pure")
            => /\ src' = src
               /\ RunArgsOf(log', "src") = RunArgsOf(log, "src")
               /\ fused = "mid" => FuseRuns(log') = FuseRuns(log)]_vars
    /\ [][(pc \in {"loop", "done"} /\ sink.tag = "Pure")
            => /\ src' = src /\ sink' = sink /\ log' = log
               /\ pc' = "done" /\ result' = sink.a]_vars
    /\ []((fused # "no" /\ \E i \in 1..Len(log) : log[i] = Ran("D", None))
            => /\ Fused.tag # "Await"
               /\ Fused.tag = "Yield" => Fused.k[1].u = From(Unit))

C17_Witness ==
    /\ pc = "loop" /\ fused = "no" /\ srcKind = "awaits" /\ vs0 = <<0>>
    /\ sinkBase = Consume /\ sinkJs = <<ThenConsumeK, ThenConsumeK>>
    /\ RunArgsOf(log, "src") = <<Some(Unit), Some(Unit), Unit, Some(Unit)>>
    /\ RunArgsOf(log, "sink") = <<Some(IntV(0)), None>>
    /\ src = From(Unit) /\ sink.tag = "Await"

\* how often the source awaits before its first value or its end
AwaitsAtStart ==
    CASE srcKind = "await"  -> 1
      [] srcKind = "awaits" -> 2
      [] OTHER              -> 0

\* C18: the pipeline to_producer returns, and every pipeline got by resuming
\* it, is Finished or Yielding, never Awaiting: to_producer answers each
\* await of the source itself with Some(()), at once when it is called and
\* inside its continuation afterwards, so connect never finds it Awaiting.
C18_ProducerNeverAwaits ==
    (gen /\ fused \in {"no", "midsink"})
        => /\ src.tag \in {"Pure", "Yield"}
           /\ \A i \in 1..Len(RunArgsOf(log, "src")) : RunArgsOf(log, "src")[i] = Unit
           /\ \A i \in 1..Len(RunArgsOf(log, "P")) :
                RunArgsOf(log, "P")[i] \in {Unit, Some(Unit)}
           /\ pc = "build" =>
                RunArgsOf(log, "P") = [i \in 1..AwaitsAtStart |-> Some(Unit)]

C18_Witness ==
    /\ pc = "loop" /\ gen /\ fused = "no"
    /\ srcKind = "awaits" /\ vs0 = <<1>>
    /\ src = From(Unit)
    /\ RunArgsOf(log, "P") = <<Some(Unit), Some(Unit), Unit, Some(Unit)>>
    /\ RunArgsOf(log, "src") = <<Unit>>
    /\ RunArgsOf(log, "sink") = <<Some(IntV(1))>>

\* C19: p == q is true exactly when p and q are both Finished with equal
\* results; when either is Awaiting or Yielding it is false, so a suspended
\* pipeline is not equal to itself.
C19_EqOnlyOnFinished ==
    pc = "compared"
        => /\ eq.b <=> (eq.p.tag = "Pure" /\ eq.q.tag = "Pure" /\ eq.p.a = eq.q.a)
           /\ (eq.p.tag # "Pure" \/ eq.q.tag # "Pure") => ~eq.b
           /\ (eq.p = eq.q /\ eq.p.tag = "Pure") => eq.b

C19_Witness ==
    /\ pc = "compared"
    /\ eq.p.tag = "Await" /\ eq.p.k # <<>> /\ eq.q = eq.p
    /\ ~eq.b

====
